---- MODULE Spec2Model ----
(***************************************************************************)
(* Stage-transition control flow of the PDF processing system:             *)
(* app/orchestrator.py drives six agents (manager, enhancement,            *)
(* processing, validation, review, completion) through the agent runtime   *)
(* (client.run).  The runtime is an external collaborator: at every turn   *)
(* the active agent's language model either calls one of the functions     *)
(* the orchestrator registered for that agent, answers (the run returns)   *)
(* or the invocation raises.                                               *)
(***************************************************************************)
EXTENDS Integers, Sequences, FiniteSets, TLC

\* ---------------------------------------------------------------- bounds
\* tool calls the runtime may execute in the single-run specification
MaxTurns == 22
\* process_pdf calls made on one reused Orchestrator
MaxCalls == 2
\* tool calls (over all calls) in the reuse specification
MaxReuseTurns == 9
\* runtime turns over all the calls that run at the same time
MaxConcTurns == 5
\* runtime turns of a request served by an entry point
MaxMainTurns == 9
\* node-method calls on one context dict
MaxNodeOps == 3
\* update calls on one PDFContext
MaxPdfOps == 2

Calls == 1..MaxCalls

\* ---------------------------------------------------------------- inputs
Texts == {"", "The sky is blue."}
Prompts == {"", "What color is the sky?"}

\* exceptions the agent invocation may raise; str(e) is the message
Exceptions == { [type |-> "ConnectionError", args |-> <<"network failure">>],
                [type |-> "TypeError", args |-> <<"missing argument: context">>],
                [type |-> "Exception", args |-> <<>>] }

\* str(e) of a Python exception: "" without args, the argument with one
Str(e) == IF Len(e.args) = 0 THEN "" ELSE e.args[1]

\* what client.run may hand back: a plain string, an object whose messages
\* end with a string or with a dict (with or without "content"), or an
\* object without messages
Responses == { [kind |-> "str", text |-> "answer"],
               [kind |-> "messages", final |-> [isstr |-> TRUE, text |-> "last message"]],
               [kind |-> "messages", final |-> [isstr |-> FALSE, content |-> <<"final content">>]],
               [kind |-> "messages", final |-> [isstr |-> FALSE, content |-> <<>>]],
               [kind |-> "nomessages"] }

\* ------------------------------------------------------------ the agents
Agents == {"manager", "enhancement", "processing", "validation", "review", "completion"}

\* Orchestrator._define_transfer_functions: the entry each transfer function
\* appends to self.node_history and the agent it returns
\* a transfer function pasted from transfer_to_manager that still logs the
\* review -> manager entry
transfer_to_enhancement_pasted ==
    [node |-> "review", action |-> "transfer_to_manager", agent |-> "enhancement"]
transfer_to_enhancement ==
    [node |-> "manager", action |-> "transfer_to_enhancement", agent |-> "enhancement"]
\* a transfer function pasted from transfer_to_enhancement without renaming
transfer_to_processing_pasted ==
    [node |-> "manager", action |-> "transfer_to_enhancement", agent |-> "processing"]
transfer_to_processing ==
    [node |-> "enhancement", action |-> "transfer_to_processing", agent |-> "processing"]
transfer_to_validation ==
    [node |-> "processing", action |-> "transfer_to_validation", agent |-> "validation"]
transfer_to_review ==
    [node |-> "validation", action |-> "transfer_to_review", agent |-> "review"]
transfer_to_completion ==
    [node |-> "validation", action |-> "transfer_to_completion", agent |-> "completion"]
\* a review transfer that hands the chain to the enhancement agent
transfer_to_manager_shortcut ==
    [node |-> "review", action |-> "transfer_to_manager", agent |-> "enhancement"]
transfer_to_manager ==
    [node |-> "review", action |-> "transfer_to_manager", agent |-> "manager"]

\* self.transfer_functions
transfer_functions ==
    [to_enhancement |-> transfer_to_enhancement,
     to_processing  |-> transfer_to_processing,
     to_validation  |-> transfer_to_validation,
     to_review      |-> transfer_to_review,
     to_completion  |-> transfer_to_completion,
     to_manager     |-> transfer_to_manager]

\* functions=[...] of the Agent each _create_*_agent builds: keys of
\* transfer_functions, or the local complete_content of the completion agent
create_manager_agent == {"to_enhancement"}
create_enhancement_agent == {"to_processing"}
\* a processing agent wired to the review stage
create_processing_agent_review == {"to_review"}
create_processing_agent == {"to_validation"}
\* a validation agent that may also hand back to the manager
create_validation_agent_direct == {"to_completion", "to_review", "to_manager"}
create_validation_agent == {"to_completion", "to_review"}
\* a review agent that may also hand straight back to validation
create_review_agent_short == {"to_manager", "to_validation"}
create_review_agent == {"to_manager"}
\* a completion agent that may reopen the chain
create_completion_agent_loop == {"complete_content", "to_manager"}
create_completion_agent == {"complete_content"}

\* the functions an agent's model may call
AgentFunctions(a) ==
    CASE a = "manager"     -> create_manager_agent
      [] a = "enhancement" -> create_enhancement_agent
      [] a = "processing"  -> create_processing_agent
      [] a = "validation"  -> create_validation_agent
      [] a = "review"      -> create_review_agent
      [] a = "completion"  -> create_completion_agent

\* a chain started at the enhancement agent
StartAgent_skip == "enhancement"
\* process_pdf starts the chain with agent=self.manager_node.agent
StartAgent == "manager"

\* ----------------------------------------------------------------- state
VARIABLES
    heap,            \* the list objects allocated so far (a reference is an index)
    node_history,    \* Orchestrator.node_history: reference to its current list
    pc,              \* per call: "idle", "run" (inside client.run), "done"
    active,          \* per call: the runtime's active agent
    initial_context, \* per call: the initial_context dict of process_pdf
    raised,          \* per call: the exceptions raised by the agent invocation
    result,          \* per call: what process_pdf returned
    clock,           \* datetime.utcnow(): strictly increasing reads
    turns,           \* tool calls executed since construction
    trace,           \* per call: what the agents did (calls, answer, exception)
    dicts,           \* the dict objects holding stage registries (a reference is an index)
    nodes,           \* per node object: its available_nodes reference and its agent
    available_nodes, \* Orchestrator.available_nodes: reference to the registry dict
    context,         \* a context dict handed to the node methods
    returned,        \* the dict the last node method returned (<<>> if none)
    pdfctx,          \* a PDFContext object
    lastop,          \* the node or PDFContext method that ran last
    ops,             \* method calls made on context and pdfctx
    entrypoint,           \* the entry point serving the request ("none" if called directly)
    reply            \* what the entry point returned

regvars == <<dicts, nodes, available_nodes>>
mainvars == <<entrypoint, reply>>
orchvars == <<heap, node_history, pc, active, initial_context, raised, result, clock, turns,
              trace, dicts, nodes, available_nodes, entrypoint, reply>>
ctxvars == <<context, returned, pdfctx, lastop, ops>>
vars == <<heap, node_history, pc, active, initial_context, raised, result, clock, turns,
          trace, dicts, nodes, available_nodes,
          context, returned, pdfctx, lastop, ops, entrypoint, reply>>

NoResult == [status |-> "none"]
NoResponse == [statusCode |-> 0]
NoContext == [pdf_text |-> "", user_prompt |-> "", processing_metadata |-> [start_time |-> 0]]

None == "None"

\* PDFContext(pdf_text=..., user_prompt=...): the dataclass defaults
PDFContext(pdf_text, user_prompt) ==
    [pdf_text |-> pdf_text,
     user_prompt |-> user_prompt,
     enhanced_prompt |-> "",
     response |-> "",
     response_args |-> <<>>,
     node_history |-> <<>>,
     node_notes |-> <<>>,
     node_status |-> TRUE,
     node_error |-> <<>>,
     validation_failed |-> FALSE,
     processing_time |-> None,
     token_count |-> None,
     confidence_score |-> None]

\* dict.update / {**d, **u}: the keys of u override those of d
DictUpdate(d, u) ==
    [k \in DOMAIN d \cup DOMAIN u |-> IF k \in DOMAIN u THEN u[k] ELSE d[k]]

\* ------------------------------------------- Orchestrator.__init__
NoAgent == [creator |-> "none", node |-> "none"]

\* Step 1: the five node constructors; each gives its node an empty
\* available_nodes dict of its own and the agent of its own _create_agent
CreatedNodes == <<"completion", "review", "validation", "processing", "enhancement">>

CreateNodes ==
    [dicts |-> [i \in 1..Len(CreatedNodes) |-> <<>>],
     nodes |-> [n \in {CreatedNodes[i] : i \in 1..Len(CreatedNodes)} |->
                  [available_nodes |-> CHOOSE i \in 1..Len(CreatedNodes) : CreatedNodes[i] = n,
                   agent |-> [creator |-> "node", node |-> n]]],
     available_nodes |-> 0]

\* Step 2: self.available_nodes = {...}: a new dict naming the five nodes
CreateRegistry(o) ==
    [o EXCEPT !.dicts = Append(@, [n \in DOMAIN o.nodes |-> n]),
              !.available_nodes = Len(o.dicts) + 1]

\* a wiring that hands every node a copy of the registry
create_agents_copy(o) ==
    [o EXCEPT !.dicts = [i \in 1..Len(o.dicts) |->
                            IF i = o.available_nodes THEN o.dicts[i]
                            ELSE o.dicts[o.available_nodes]],
              !.nodes = [n \in DOMAIN o.nodes |->
                            [available_nodes |-> o.nodes[n].available_nodes,
                             agent |-> [creator |-> "orchestrator", node |-> n]]]]
\* Step 4, _create_agents: every registered node gets a reference to the
\* registry dict itself, then its agent is replaced by the orchestrator's
create_agents(o) ==
    [o EXCEPT !.nodes = [n \in DOMAIN o.nodes |->
                            IF n \in DOMAIN o.dicts[o.available_nodes]
                            THEN [available_nodes |-> o.available_nodes,
                                  agent |-> [creator |-> "orchestrator", node |-> n]]
                            ELSE o.nodes[n]]]

\* Step 5: ManagerNode(self.available_nodes) keeps the reference it is
\* given and creates no agent; the orchestrator then sets its agent
CreateManager(o) ==
    [o EXCEPT !.nodes = DictUpdate(o.nodes,
                 [manager |-> [available_nodes |-> o.available_nodes,
                               agent |-> [creator |-> "orchestrator", node |-> "manager"]]])]

\* self.available_nodes["manager"] = self.manager_node
RegisterManager(o) ==
    [o EXCEPT !.dicts[o.available_nodes] = DictUpdate(@, [manager |-> "manager"])]

Orchestrator_init ==
    RegisterManager(CreateManager(create_agents(CreateRegistry(CreateNodes))))

\* no context in use: the orchestrator never builds a PDFContext or calls
\* a node method
NoContextInUse ==
    /\ context = <<>>
    /\ returned = <<>>
    /\ pdfctx = PDFContext("", "")
    /\ lastop = <<"none", "none">>
    /\ ops = 0

\* Orchestrator.__init__: self.node_history = []
Constructed ==
    /\ heap = << <<>> >>
    /\ node_history = 1
    /\ pc = [c \in Calls |-> "idle"]
    /\ active = [c \in Calls |-> "none"]
    /\ initial_context = [c \in Calls |-> NoContext]
    /\ raised = [c \in Calls |-> <<>>]
    /\ result = [c \in Calls |-> NoResult]
    /\ clock = 1
    /\ turns = 0
    /\ trace = [c \in Calls |-> <<>>]
    /\ dicts = Orchestrator_init.dicts
    /\ nodes = Orchestrator_init.nodes
    /\ available_nodes = Orchestrator_init.available_nodes
    /\ entrypoint = "none"
    /\ reply = NoResponse

Init ==
    /\ Constructed
    /\ NoContextInUse

\* the list self.node_history refers to
History == heap[node_history]

\* a process_pdf that empties the list of the call before and goes on with it
ResetHistory_clear(h, ref) == [heap |-> [h EXCEPT ![ref] = <<>>], node_history |-> ref]
\* a process_pdf that starts from a copy of the history of the call before
ResetHistory_copy(h, ref) == [heap |-> Append(h, h[ref]), node_history |-> Len(h) + 1]
\* self.node_history = [] at the top of process_pdf: a new list object is
\* made and the attribute is bound to it; the old list stays as it is
ResetHistory(h, ref) == [heap |-> Append(h, <<>>), node_history |-> Len(h) + 1]

\* process_pdf up to the call of client.run: a fresh list replaces
\* self.node_history, initial_context is built, the chain starts at the manager
ProcessPdfStart(c, pdf_text, user_prompt) ==
    /\ pc[c] = "idle"
    /\ heap' = ResetHistory(heap, node_history).heap
    /\ node_history' = ResetHistory(heap, node_history).node_history
    /\ initial_context' = [initial_context EXCEPT ![c] =
          [pdf_text |-> pdf_text, user_prompt |-> user_prompt,
           processing_metadata |-> [start_time |-> clock]]]
    /\ clock' = clock + 1
    /\ pc' = [pc EXCEPT ![c] = "run"]
    /\ active' = [active EXCEPT ![c] = StartAgent]
    /\ UNCHANGED <<raised, result, turns, trace>>
    /\ UNCHANGED ctxvars
    /\ UNCHANGED regvars
    /\ UNCHANGED mainvars

\* a transfer function that assigns a fresh one-entry list
RecordTransfer_assign(h, t, now) ==
    << [node |-> t.node, action |-> t.action, timestamp |-> now] >>
\* what a transfer function does to the list self.node_history refers to
RecordTransfer(h, t, now) ==
    Append(h, [node |-> t.node, action |-> t.action, timestamp |-> now])

\* a turn in which the active agent's model calls one of its transfer
\* functions: the function appends to self.node_history and returns the
\* next agent, which the runtime makes the active agent
CallTransfer(c, f, budget) ==
    /\ pc[c] = "run"
    /\ turns < budget
    /\ f \in AgentFunctions(active[c])
    /\ f \in DOMAIN transfer_functions
    /\ heap' = [heap EXCEPT ![node_history] =
                   RecordTransfer(heap[node_history], transfer_functions[f], clock)]
    /\ clock' = clock + 1
    /\ active' = [active EXCEPT ![c] = transfer_functions[f].agent]
    /\ turns' = turns + 1
    /\ trace' = [trace EXCEPT ![c] = Append(@, [ev |-> "call", f |-> f])]
    /\ UNCHANGED <<node_history, pc, initial_context, raised, result>>
    /\ UNCHANGED ctxvars
    /\ UNCHANGED regvars
    /\ UNCHANGED mainvars

\* a turn in which the completion agent's model calls complete_content: it
\* returns a message dict, not an agent, so the active agent stays
CallCompleteContent(c, budget) ==
    /\ pc[c] = "run"
    /\ turns < budget
    /\ "complete_content" \in AgentFunctions(active[c])
    /\ turns' = turns + 1
    /\ trace' = [trace EXCEPT ![c] = Append(@, [ev |-> "call", f |-> "complete_content"])]
    /\ UNCHANGED <<heap, node_history, pc, active, initial_context, raised, result, clock>>
    /\ UNCHANGED ctxvars
    /\ UNCHANGED regvars
    /\ UNCHANGED mainvars

\* "result" of the three success branches of process_pdf
ResultOf(response) ==
    CASE response.kind = "str" -> response.text
      [] response.kind = "messages" ->
            IF response.final.isstr THEN response.final.text
            ELSE IF Len(response.final.content) = 0 THEN ""
            ELSE response.final.content[1]
      [] response.kind = "nomessages" -> "str(response)"

\* the dict the success branches return
SuccessResult(response, ctx, hist, now) ==
    [status |-> "success",
     result |-> ResultOf(response),
     metadata |-> [node_history |-> hist,
                   node_notes |-> <<>>,
                   node_error |-> <<>>,
                   processing_time |-> [start |-> ctx.processing_metadata.start_time,
                                        end |-> now]]]

\* the active agent's model answers without a tool call: client.run
\* returns and process_pdf returns a success dict
ClientRunReturns(c, response) ==
    /\ pc[c] = "run"
    /\ result' = [result EXCEPT ![c] =
                     SuccessResult(response, initial_context[c], node_history, clock)]
    /\ clock' = clock + 1
    /\ pc' = [pc EXCEPT ![c] = "done"]
    /\ trace' = [trace EXCEPT ![c] = Append(@, [ev |-> "answer", response |-> response])]
    /\ UNCHANGED <<heap, node_history, active, initial_context, raised, turns>>
    /\ UNCHANGED ctxvars
    /\ UNCHANGED regvars
    /\ UNCHANGED mainvars

\* an except clause that reports the run as a success
ErrorResult_swallow(e, ctx, hist, now) ==
    [status |-> "success",
     result |-> "",
     metadata |-> [node_history |-> hist,
                   node_notes |-> <<>>,
                   node_error |-> <<>>,
                   processing_time |-> [start |-> ctx.processing_metadata.start_time,
                                        end |-> now]]]
\* the dict the outer except clause returns
ErrorResult(e, ctx, hist, now) ==
    [status |-> "error",
     error |-> Str(e),
     metadata |-> [node_history |-> hist,
                   node_notes |-> <<>>,
                   node_error |-> <<Str(e)>>,
                   processing_time |-> [start |-> ctx.processing_metadata.start_time,
                                        end |-> now]]]

\* the agent invocation raises: the inner except re-raises, the outer
\* except returns an error dict
ClientRunRaises(c, e) ==
    /\ pc[c] = "run"
    /\ raised' = [raised EXCEPT ![c] = Append(raised[c], e)]
    /\ result' = [result EXCEPT ![c] =
                     ErrorResult(e, initial_context[c], node_history, clock)]
    /\ clock' = clock + 1
    /\ pc' = [pc EXCEPT ![c] = "done"]
    /\ trace' = [trace EXCEPT ![c] = Append(@, [ev |-> "raise", exc |-> e])]
    /\ UNCHANGED <<heap, node_history, active, initial_context, turns>>
    /\ UNCHANGED ctxvars
    /\ UNCHANGED regvars
    /\ UNCHANGED mainvars

\* -------------------------------------------------- one run (Spec)
\* an Orchestrator built for one request, as process_document does
Start ==
    \E t \in Texts, p \in Prompts : ProcessPdfStart(1, t, p)

Transfer ==
    \E f \in DOMAIN transfer_functions : CallTransfer(1, f, MaxTurns)

Complete == CallCompleteContent(1, MaxTurns)

Returns ==
    \E r \in Responses : ClientRunReturns(1, r)

Raises ==
    \E e \in Exceptions : ClientRunRaises(1, e)

Next ==
    \/ Start
    \/ Transfer
    \/ Complete
    \/ Returns
    \/ Raises

Spec == Init /\ [][Next]_vars

\* ------------------------------------- sequential reuse (SpecReuse)
\* one Orchestrator whose process_pdf is called again after it returned
NoneRunning == \A d \in Calls : pc[d] # "run"

\* the reuse specification varies the document only (the prompt plays no
\* part in the control flow) and ends a call by one of two answers or by one
\* exception
ReusePrompts == {p \in Prompts : p # ""}
ReuseResponses == {r \in Responses : r.kind \in {"str", "nomessages"}}
ReuseExceptions == {e \in Exceptions : e.type = "ConnectionError"}

ReuseStart ==
    \E c \in Calls, t \in Texts, p \in ReusePrompts :
        /\ NoneRunning
        /\ \A d \in Calls : d < c => pc[d] = "done"
        /\ ProcessPdfStart(c, t, p)

ReuseTransfer ==
    \E c \in Calls, f \in DOMAIN transfer_functions : CallTransfer(c, f, MaxReuseTurns)

ReuseComplete ==
    \E c \in Calls : CallCompleteContent(c, MaxReuseTurns)

ReuseReturns ==
    \E c \in Calls, r \in ReuseResponses : ClientRunReturns(c, r)

ReuseRaises ==
    \E c \in Calls, e \in ReuseExceptions : ClientRunRaises(c, e)

NextReuse ==
    \/ ReuseStart
    \/ ReuseTransfer
    \/ ReuseComplete
    \/ ReuseReturns
    \/ ReuseRaises

SpecReuse == Init /\ [][NextReuse]_vars

\* ------------------------------------ interleaved calls (SpecConc)
\* one Orchestrator whose process_pdf is called from several threads: a call
\* may start while another one is inside client.run, and their turns
\* interleave; the document is fixed and a call ends by one answer or by
\* one exception
ConcTexts == {t \in Texts : t # ""}
ConcResponses == {r \in Responses : r.kind = "str"}

ConcStart ==
    \E c \in Calls, t \in ConcTexts, p \in ReusePrompts :
        /\ \A d \in Calls : d < c => pc[d] # "idle"
        /\ ProcessPdfStart(c, t, p)

ConcTransfer ==
    \E c \in Calls, f \in DOMAIN transfer_functions : CallTransfer(c, f, MaxConcTurns)

ConcComplete ==
    \E c \in Calls : CallCompleteContent(c, MaxConcTurns)

ConcReturns ==
    \E c \in Calls, r \in ConcResponses : ClientRunReturns(c, r)

ConcRaises ==
    \E c \in Calls, e \in ReuseExceptions : ClientRunRaises(c, e)

NextConc ==
    \/ ConcStart
    \/ ConcTransfer
    \/ ConcComplete
    \/ ConcReturns
    \/ ConcRaises

SpecConc == Init /\ [][NextConc]_vars

\* ------------------------------------ the entry points (SpecMain)
\* process_pdf of src/main.py and process_document of src/app/main.py: each
\* builds an Orchestrator, calls its process_pdf and returns
EntryPoints == {"process_pdf", "process_document"}

\* what src/main.py's process_pdf returns after orchestrator.process_pdf
\* returned: statusCode 200 around result.get("result", "") and the metadata
main_process_pdf(res, now) ==
    [statusCode |-> 200,
     body |-> [response |-> IF "result" \in DOMAIN res THEN res.result ELSE "",
               metadata |-> DictUpdate(IF "metadata" \in DOMAIN res THEN res.metadata ELSE <<>>,
                                       [request_id |-> "uuid4", timestamp |-> now])]]

\* the except clause of src/main.py's process_pdf
main_process_pdf_except(e) ==
    [statusCode |-> 500,
     body |-> [error |-> Str(e), message |-> "Processing failed", traceback |-> "traceback"]]

\* an except clause that leaves the error list empty
process_document_except_nolist(e, hist) ==
    [status |-> "error",
     error |-> Str(e),
     metadata |-> [node_history |-> hist, node_notes |-> <<>>, node_error |-> <<>>]]
\* the except clause of process_document; hist refers to a new empty list
process_document_except(e, hist) ==
    [status |-> "error",
     error |-> Str(e),
     metadata |-> [node_history |-> hist, node_notes |-> <<>>, node_error |-> <<Str(e)>>]]

\* the entry point is called and Orchestrator() is built
MainCall ==
    \E en \in EntryPoints :
        /\ entrypoint = "none"
        /\ pc[1] = "idle"
        /\ entrypoint' = en
        /\ UNCHANGED <<heap, node_history, pc, active, initial_context, raised, result,
                       clock, turns, trace, reply>>
        /\ UNCHANGED regvars
        /\ UNCHANGED ctxvars

\* the entry point is called and Orchestrator() raises (Swarm() does when
\* no API key is configured): the except clause builds the return value
MainConstructRaises ==
    \E en \in EntryPoints, e \in Exceptions :
        /\ entrypoint = "none"
        /\ pc[1] = "idle"
        /\ entrypoint' = en
        /\ heap' = Append(heap, <<>>)
        /\ reply' = IF en = "process_pdf" THEN main_process_pdf_except(e)
                       ELSE process_document_except(e, Len(heap) + 1)
        /\ trace' = [trace EXCEPT ![1] = Append(@, [ev |-> "init_raise", exc |-> e])]
        /\ UNCHANGED <<node_history, pc, active, initial_context, raised, result, clock, turns>>
        /\ UNCHANGED regvars
        /\ UNCHANGED ctxvars

Served == entrypoint \in EntryPoints /\ reply = NoResponse

MainStart ==
    \E t \in Texts, p \in ReusePrompts : Served /\ ProcessPdfStart(1, t, p)

MainTransfer ==
    \E f \in DOMAIN transfer_functions : Served /\ CallTransfer(1, f, MaxMainTurns)

MainComplete == Served /\ CallCompleteContent(1, MaxMainTurns)

MainRunReturns ==
    \E r \in ReuseResponses : Served /\ ClientRunReturns(1, r)

MainRunRaises ==
    \E e \in ReuseExceptions : Served /\ ClientRunRaises(1, e)

\* orchestrator.process_pdf returned: src/main.py wraps the result,
\* process_document queries the node status, logs it and returns the result
MainReturn ==
    /\ Served
    /\ pc[1] = "done"
    /\ reply' = IF entrypoint = "process_pdf" THEN main_process_pdf(result[1], clock)
                   ELSE result[1]
    /\ clock' = IF entrypoint = "process_pdf" THEN clock + 1 ELSE clock
    /\ UNCHANGED <<heap, node_history, pc, active, initial_context, raised, result,
                   turns, trace, entrypoint>>
    /\ UNCHANGED regvars
    /\ UNCHANGED ctxvars

NextMain ==
    \/ MainCall
    \/ MainConstructRaises
    \/ MainStart
    \/ MainTransfer
    \/ MainComplete
    \/ MainRunReturns
    \/ MainRunRaises
    \/ MainReturn

SpecMain == Init /\ [][NextMain]_vars

\* ------------------------------------ the node methods (SpecNode)
\* prepare_context of the workflow script
prepare_context(pdf_text, user_prompt) ==
    [pdf_text |-> pdf_text,
     user_prompt |-> user_prompt,
     node_history |-> <<>>,
     node_notes |-> <<>>,
     node_status |-> "pending",
     processing_metadata |-> [start_time |-> "2024-03-21T00:00:00Z",
                              source |-> "test", version |-> "1.0"],
     next_node |-> None]

\* an update_context that builds its dict from the new keys alone
update_context_fresh(ctx, status, message, kwargs) ==
    DictUpdate([status |-> status, message |-> message], kwargs)
\* NodeBase.update_context: a new dict, the passed one is not touched
update_context(ctx, status, message, kwargs) ==
    DictUpdate(DictUpdate(ctx, [status |-> status, message |-> message]), kwargs)

\* a handle_error that appends its message to the error log
handle_error_append(ctx, message) ==
    DictUpdate(ctx, [status |-> "error",
                     message |-> message,
                     node_error |-> Append(IF "node_error" \in DOMAIN ctx
                                           THEN ctx.node_error ELSE <<>>, message),
                     validation_failed |-> TRUE])
\* the context.update({...}) shared by the handle_error of the validation,
\* review, processing and enhancement nodes
handle_error(ctx, message) ==
    DictUpdate(ctx, [status |-> "error",
                     message |-> message,
                     node_error |-> <<message>>,
                     validation_failed |-> TRUE])

ValidationNode_handle_error(ctx) == handle_error(ctx, "Validation failed")
ReviewNode_handle_error(ctx) == handle_error(ctx, "Review failed")
ProcessingNode_handle_error(ctx) == handle_error(ctx, "Processing failed")
EnhancementNode_handle_error(ctx) == handle_error(ctx, "Enhancement failed")

\* ManagerNode.handle_error and CompletionNode.handle_error
ManagerNode_handle_error(e, ctx) ==
    DictUpdate(ctx, [node_status |-> "error", error |-> Str(e)])

\* the update_context call of each node's transfer method
NodeTransfers ==
    [manager_transfer_to_enhancement |->
        [status |-> "success", message |-> "Transferring to enhancement node",
         target |-> "enhancement", node |-> "manager"],
     enhancement_transfer_to_processing |->
        [status |-> "success", message |-> "Transferring to processing node",
         target |-> "processing", node |-> "enhancement"],
     processing_transfer_to_validation |->
        [status |-> "success", message |-> "Transferring to validation node",
         target |-> "validation", node |-> "processing"],
     validation_transfer_to_completion |->
        [status |-> "success", message |-> "Validation passed, transferring to completion",
         target |-> "completion", node |-> "validation"],
     validation_transfer_to_review |->
        [status |-> "review_needed", message |-> "Validation failed, transferring to review",
         target |-> "review", node |-> "validation"],
     review_transfer_to_manager |->
        [status |-> "review_complete",
         message |-> "Transferring back to manager for reprocessing",
         target |-> "manager", node |-> "review"]]

\* update_context_history of the workflow script: appends in place
update_context_history(ctx, node_name, action, note) ==
    [ctx EXCEPT !.node_history = Append(@, [node |-> node_name, action |-> action,
                                           timestamp |-> "2024-03-21T00:00:00Z"]),
                !.node_notes = Append(@, <<node_name, note>>)]

HandleErrorNodes == {"validation", "review", "processing", "enhancement"}

InitNode ==
    /\ Constructed
    /\ \E t \in Texts, p \in Prompts : context = prepare_context(t, p)
    /\ returned = <<>>
    /\ pdfctx = PDFContext("", "")
    /\ lastop = <<"none", "none">>
    /\ ops = 0

NodeHandleError ==
    \E n \in HandleErrorNodes :
        /\ ops < MaxNodeOps
        /\ context' = CASE n = "validation"  -> ValidationNode_handle_error(context)
                         [] n = "review"      -> ReviewNode_handle_error(context)
                         [] n = "processing"  -> ProcessingNode_handle_error(context)
                         [] n = "enhancement" -> EnhancementNode_handle_error(context)
        /\ lastop' = <<n, "handle_error">>
        /\ ops' = ops + 1
        /\ UNCHANGED <<returned, pdfctx>>
        /\ UNCHANGED orchvars

ControlHandleError ==
    \E n \in {"manager", "completion"}, e \in Exceptions :
        /\ ops < MaxNodeOps
        /\ context' = ManagerNode_handle_error(e, context)
        /\ lastop' = <<n, "handle_error">>
        /\ ops' = ops + 1
        /\ UNCHANGED <<returned, pdfctx>>
        /\ UNCHANGED orchvars

\* functions=[...] of the Agent each node class builds in its own
\* _create_agent: the node's transfer methods, or finalize_response
Node_create_agent ==
    [manager |-> {"manager_transfer_to_enhancement"},
     enhancement |-> {"enhancement_transfer_to_processing"},
     processing |-> {"processing_transfer_to_validation"},
     validation |-> {"validation_transfer_to_completion", "validation_transfer_to_review"},
     review |-> {"review_transfer_to_manager"},
     completion |-> {"finalize_response"}]

\* self.available_nodes[target] in a node's transfer method: the lookup
\* goes through the dict the node refers to and succeeds when the key is there
NodeLookup(n, target) ==
    IF target \in DOMAIN dicts[nodes[n].available_nodes]
    THEN dicts[nodes[n].available_nodes][target]
    ELSE "KeyError"

\* a node's transfer method: update_context builds a dict that the method
\* drops; the context it was given stays as it was
NodeTransfer ==
    \E m \in DOMAIN NodeTransfers :
        /\ ops < MaxNodeOps
        /\ returned' = update_context(context, NodeTransfers[m].status,
                                       NodeTransfers[m].message, <<>>)
        /\ lastop' = <<m, "update_context">>
        /\ ops' = ops + 1
        /\ UNCHANGED <<context, pdfctx>>
        /\ UNCHANGED orchvars

\* CompletionNode.finalize_response: returns what update_context builds
\* with status "completed" and final_response=context.get("processed_content")
FinalizeResponse ==
    /\ ops < MaxNodeOps
    /\ returned' = update_context(context, "completed", "Processing completed successfully",
                                   [final_response |->
                                       IF "processed_content" \in DOMAIN context
                                       THEN context.processed_content ELSE None])
    /\ lastop' = <<"finalize_response", "update_context">>
    /\ ops' = ops + 1
    /\ UNCHANGED <<context, pdfctx>>
    /\ UNCHANGED orchvars

UpdateContextHistory ==
    \E n \in {"manager", "validation"} :
        /\ ops < MaxNodeOps
        /\ context' = update_context_history(context, n, "execute", "done")
        /\ lastop' = <<n, "update_context_history">>
        /\ ops' = ops + 1
        /\ UNCHANGED <<returned, pdfctx>>
        /\ UNCHANGED orchvars

NextNode ==
    \/ NodeHandleError
    \/ ControlHandleError
    \/ NodeTransfer
    \/ FinalizeResponse
    \/ UpdateContextHistory

SpecNode == InitNode /\ [][NextNode]_vars

\* --------------------------------------------- PDFContext (SpecPdf)
Statuses == {"success", "error"}
Messages == {"first note", "second note"}

\* keyword arguments passed to PDFContext.update
Kwargs ==
    { <<>>,
      [pdf_text |-> "another document"],
      [user_prompt |-> "another request"],
      [node_history |-> <<>>],
      [node_error |-> <<"update error">>],
      [validation_failed |-> TRUE],
      [node_status |-> TRUE],
      [to_dict |-> None],
      [unknown_key |-> "ignored"] }

\* the methods of PDFContext: hasattr(self, key) is true for them as it is
\* for the fields, so setattr puts such a key into the instance, where it
\* hides the method
Methods == {"update", "to_dict", "from_dict", "is_valid", "get_processing_summary"}

\* an update that takes any non-empty status for a success
PDFContext_update_truthy(self, status, message, kwargs) ==
    LET logged == [self EXCEPT !.node_status = (status # ""),
                               !.node_history = Append(@, "PDFContext"),
                               !.node_notes = Append(@, message)]
    IN  [k \in DOMAIN logged \cup (DOMAIN kwargs \cap Methods) |->
            IF k \in DOMAIN kwargs THEN kwargs[k] ELSE logged[k]]
\* PDFContext.update: status, history and notes, then every keyword that
\* names an attribute is assigned
PDFContext_update(self, status, message, kwargs) ==
    LET logged == [self EXCEPT !.node_status = (status = "success"),
                               !.node_history = Append(@, "PDFContext"),
                               !.node_notes = Append(@, message)]
    IN  [k \in DOMAIN logged \cup (DOMAIN kwargs \cap Methods) |->
            IF k \in DOMAIN kwargs THEN kwargs[k] ELSE logged[k]]

\* the dataclass fields; the generated __eq__ compares these
Fields == DOMAIN PDFContext("", "")
FieldsOf(self) == [k \in Fields |-> self[k]]

\* calling something that is not callable
TypeError == [raised |-> "TypeError"]

\* PDFContext.to_dict: self.to_dict is the method unless the instance has
\* an attribute of that name
to_dict(self) ==
    IF "to_dict" \in DOMAIN self THEN TypeError
    ELSE [pdf_text |-> self.pdf_text,
          user_prompt |-> self.user_prompt,
          enhanced_prompt |-> self.enhanced_prompt,
          response |-> self.response,
          response_args |-> self.response_args,
          node_history |-> self.node_history,
          node_notes |-> self.node_notes,
          node_status |-> self.node_status,
          node_error |-> self.node_error,
          validation_failed |-> self.validation_failed,
          processing_time |-> self.processing_time,
          token_count |-> self.token_count,
          confidence_score |-> self.confidence_score]

\* PDFContext.from_dict: cls(**data), the defaults for the keys left out
\* and a TypeError for a key that is no field
from_dict(data) ==
    IF DOMAIN data \subseteq Fields THEN DictUpdate(PDFContext("", ""), data)
    ELSE TypeError

\* PDFContext.is_valid
is_valid(self) ==
    /\ self.pdf_text # ""
    /\ self.user_prompt # ""
    /\ ~ self.validation_failed
    /\ self.node_status

InitPdf ==
    /\ Constructed
    /\ context = <<>>
    /\ returned = <<>>
    /\ \E t \in Texts, p \in Prompts : pdfctx = PDFContext(t, p)
    /\ lastop = <<"none", "none">>
    /\ ops = 0

\* the stages whose modules import PDFContext: update takes no argument
\* that says which of them is calling
UpdateCallers == {"enhancement", "validation", "review"}

PdfUpdate ==
    \E n \in UpdateCallers, st \in Statuses, m \in Messages, kw \in Kwargs :
        /\ ops < MaxPdfOps
        /\ pdfctx' = PDFContext_update(pdfctx, st, m, kw)
        /\ lastop' = <<n, "update", st, m, DOMAIN kw>>
        /\ ops' = ops + 1
        /\ UNCHANGED <<context, returned>>
        /\ UNCHANGED orchvars

NextPdf == PdfUpdate

SpecPdf == InitPdf /\ [][NextPdf]_vars

\* ---------------------------------------------------------------- claims
IsPrefix(s, t) ==
    /\ Len(s) <= Len(t)
    /\ \A i \in 1..Len(s) : s[i] = t[i]

\* number of entries of h recording the transfer node -> action
CountOf(h, node, action) ==
    Cardinality({i \in 1..Len(h) : h[i].node = node /\ h[i].action = action})

\* the list a returned result refers to
ResultHistory(c) == heap[result[c].metadata.node_history]

\* C1: one call of process terminates: with the Review->Intake back-edge
\* taken at most max_retries (3) times, a run executes at most
\* (3 + 1) * 5 stage transfers, so its history never grows beyond that.
C1_StageExecutionsBounded ==
    Len(History) <= (3 + 1) * 5

\* C2: the Review->Intake back-edge is taken at most 3 times in a run; a
\* run that went to review a fourth time ends failed with an explicit
\* "max retries exceeded" entry in its errors.
C2_RetryBudget ==
    /\ CountOf(History, "review", "transfer_to_manager") <= 3
    /\ \A c \in Calls :
          (pc[c] = "done" /\ CountOf(ResultHistory(c), "validation", "transfer_to_review") > 3)
             => /\ result[c].status \in {"failed", "error"}
                /\ \E i \in 1..Len(result[c].metadata.node_error) :
                      result[c].metadata.node_error[i] = "max retries exceeded"

\* the edges of the stage graph
StageEdges ==
    { <<"manager", "enhancement">>, <<"enhancement", "processing">>,
      <<"processing", "validation">>, <<"validation", "completion">>,
      <<"validation", "review">>, <<"review", "manager">> }

C4_CompletionSoleTerminal ==
    /\ AgentFunctions("completion") \cap DOMAIN transfer_functions = {}
    /\ \A c \in Calls :
          (pc[c] = "done" /\ result[c].status # "error") => active[c] = "completion"

\* C5: every run starts at the manager: a running call that has not yet
\* transferred is at the manager, and the first entry of every run's
\* history is a transfer out of the manager, whatever earlier runs did.
C5_StartsAtManager ==
    /\ \A c \in Calls : (pc[c] = "run" /\ History = <<>>) => active[c] = "manager"
    /\ \A i \in 1..Len(heap) : heap[i] # <<>> => heap[i][1].node = "manager"

\* a second run with transfers, after a first run that stopped mid-chain
C5_Witness ==
    /\ pc[1] = "done" /\ active[1] = "validation"
    /\ pc[2] = "done" /\ Len(ResultHistory(2)) >= 1

\* C6: status success is reported only for a run whose last transfer was
\* Validation->Completion and that carries no error.
C6_SuccessOnlyAfterValidationPassed ==
    \A c \in Calls :
        (pc[c] = "done" /\ result[c].status = "success")
           => /\ ResultHistory(c) # <<>>
              /\ ResultHistory(c)[Len(ResultHistory(c))].action = "transfer_to_completion"
              /\ result[c].metadata.node_error = <<>>

\* C7: an exception raised by the agent invocation never escapes: the call
\* returns a result of status error whose metadata holds node_history,
\* node_notes and node_error, and the exception's message is the error and
\* the node_error entry.
C7_ExceptionBecomesErrorResult ==
    \A c \in Calls :
        raised[c] # <<>>
           => /\ pc[c] = "done"
              /\ result[c].status = "error"
              /\ result[c].error = Str(raised[c][1])
              /\ {"node_history", "node_notes", "node_error"} \subseteq DOMAIN result[c].metadata
              /\ result[c].metadata.node_error = << Str(raised[c][1]) >>
              /\ result[c].metadata.node_history \in 1..Len(heap)

\* an exception raised after the chain reached the processing stage
C7_Witness ==
    /\ raised[1] # <<>>
    /\ active[1] = "processing"
    /\ Len(History) = 2

\* C8: within a run every step leaves the history unchanged or appends at
\* its end, and the returned result refers to that same history.
C8_HistoryAppendOnly ==
    [][\A c \in Calls :
          pc[c] = "run"
             => /\ IsPrefix(History, heap'[node_history'])
                /\ pc'[c] = "done" =>
                      /\ result'[c].metadata.node_history = node_history
                      /\ heap'[node_history] = History]_vars

\* a returned result whose history holds several transfers
C8_Witness ==
    /\ pc[1] = "done"
    /\ Len(ResultHistory(1)) >= 3

\* the error log of a context dict
ErrorLog(ctx) == IF "node_error" \in DOMAIN ctx THEN ctx.node_error ELSE <<>>

\* C9: handle_error of the validation, review, processing and enhancement
\* nodes keeps every earlier node_error entry, in order: the log before the
\* call is a prefix of the log after it.
C9_HandleErrorKeepsErrors ==
    [][(ops' # ops /\ lastop'[2] = "handle_error" /\ lastop'[1] \in HandleErrorNodes)
          => IsPrefix(ErrorLog(context), ErrorLog(context'))]_vars

\* C10: pdf_text and user_prompt never change once the context exists:
\* not in the initial_context of a call, not in a context dict, not in a
\* PDFContext.
C10_SourceInputsImmutable ==
    [][/\ \A c \in Calls : pc[c] # "idle" =>
             /\ initial_context'[c].pdf_text = initial_context[c].pdf_text
             /\ initial_context'[c].user_prompt = initial_context[c].user_prompt
       /\ pdfctx'.pdf_text = pdfctx.pdf_text
       /\ pdfctx'.user_prompt = pdfctx.user_prompt
       /\ "pdf_text" \in DOMAIN context =>
             /\ context'.pdf_text = context.pdf_text
             /\ context'.user_prompt = context.user_prompt]_vars

\* the entries of h written by the validation stage, in order
ValidationOutcomes(h) == SelectSeq(h, LAMBDA e : e.node = "validation")

\* C11: when Validation asks for review on every attempt, Validation runs
\* exactly max_retries + 1 = 4 times and the run ends failed with a
\* RetryBudgetExceeded entry in its errors.
C11_AlwaysNeedsReviewFails ==
    \A c \in Calls :
        (pc[c] # "idle" /\ CountOf(History, "validation", "transfer_to_completion") = 0)
           => /\ CountOf(History, "validation", "transfer_to_review") <= 3 + 1
              /\ (pc[c] = "done" /\ CountOf(History, "validation", "transfer_to_review") = 3 + 1)
                    => /\ result[c].status \in {"failed", "error"}
                       /\ \E i \in 1..Len(result[c].metadata.node_error) :
                             result[c].metadata.node_error[i] = "RetryBudgetExceeded"

\* C12: when the first Validation outcome is ok (the fourth transfer is
\* validation -> completion), the history holds no review -> manager entry
\* and no entry of or into the review stage: the iteration count is 0.
C12_FirstPassOkNoIteration ==
    (Len(History) >= 4 /\ History[4].action = "transfer_to_completion")
       => /\ CountOf(History, "review", "transfer_to_manager") = 0
          /\ \A i \in 1..Len(History) :
                History[i].node # "review" /\ History[i].action # "transfer_to_review"

\* a finished run whose first validation passed
C12_Witness ==
    /\ pc[1] = "done"
    /\ result[1].status = "success"
    /\ Len(ResultHistory(1)) >= 4
    /\ ResultHistory(1)[4].action = "transfer_to_completion"

\* every stage succeeded and validation passed at once: the run went
\* straight to completion and the completion agent answered
HappyPath(c) ==
    /\ pc[c] = "done"
    /\ raised[c] = <<>>
    /\ active[c] = "completion"
    /\ Len(ValidationOutcomes(ResultHistory(c))) = 1

TwoReviewsThenOk(h) ==
    LET v == ValidationOutcomes(h)
    IN  /\ Len(v) = 3
        /\ v[1].action = "transfer_to_review"
        /\ v[2].action = "transfer_to_review"
        /\ v[3].action = "transfer_to_completion"

\* C14: when Validation asks for review twice and then passes, the
\* review -> manager edge was taken exactly twice, Validation ran exactly
\* three times, and the run that then returns without an exception has
\* status success.
C14_TwoReviewsThenOk ==
    \A c \in Calls :
        (pc[c] # "idle" /\ TwoReviewsThenOk(History))
           => /\ CountOf(History, "review", "transfer_to_manager") = 2
              /\ CountOf(History, "processing", "transfer_to_validation") = 3
              /\ Len(History) = 14
              /\ active[c] = "completion"
              /\ (pc[c] = "done" /\ raised[c] = <<>>) => result[c].status = "success"

C14_Witness ==
    /\ pc[1] = "done"
    /\ result[1].status = "success"
    /\ TwoReviewsThenOk(ResultHistory(1))

\* the string s holds the string p somewhere
Contains(s, p) ==
    \E i \in 1..(Len(s) - Len(p) + 1) : SubSeq(s, i, i + Len(p) - 1) = p

\* an errors entry that names the Extraction (processing) stage
TaggedExtraction(entry) ==
    \/ Contains(entry, "Extraction")
    \/ Contains(entry, "Processing")
    \/ Contains(entry, "processing")

\* the agent invocation raised while the processing agent was active for
\* the first time
FailedAtExtraction(c) ==
    /\ pc[c] = "done"
    /\ raised[c] # <<>>
    /\ active[c] = "processing"
    /\ CountOf(ResultHistory(c), "processing", "transfer_to_validation") = 0

\* C15: when the agent invocation fails at the Extraction (processing)
\* stage, the result has status error, its errors hold exactly one entry
\* and that entry is tagged with the Extraction stage, the history written
\* before the failure is the one returned, and it has no Validation entry.
C15_ExtractionFailureTagged ==
    \A c \in Calls :
        FailedAtExtraction(c)
           => /\ result[c].status = "error"
              /\ Len(result[c].metadata.node_error) = 1
              /\ TaggedExtraction(result[c].metadata.node_error[1])
              /\ Len(ResultHistory(c)) = 2
              /\ ResultHistory(c)[1].action = "transfer_to_enhancement"
              /\ ResultHistory(c)[2].action = "transfer_to_processing"
              /\ \A i \in 1..Len(ResultHistory(c)) : ResultHistory(c)[i].node # "validation"

\* what a caller sees of a result when timestamps are left out: status,
\* answer or error text, the node and action of each history entry, the
\* notes and the errors
ResultView(c) ==
    [status |-> result[c].status,
     answer |-> IF "result" \in DOMAIN result[c] THEN result[c].result ELSE result[c].error,
     history |-> [i \in 1..Len(ResultHistory(c)) |->
                     [node |-> ResultHistory(c)[i].node,
                      action |-> ResultHistory(c)[i].action]],
     notes |-> result[c].metadata.node_notes,
     errors |-> result[c].metadata.node_error]

\* two finished calls with the same inputs during which the agents did
\* the same things
SameRun(c, d) ==
    /\ pc[c] = "done"
    /\ pc[d] = "done"
    /\ initial_context[c].pdf_text = initial_context[d].pdf_text
    /\ initial_context[c].user_prompt = initial_context[d].user_prompt
    /\ trace[c] = trace[d]

\* C16: two calls of process_pdf on one Orchestrator, one after the other,
\* with the same inputs and the same agent behaviour return the same
\* result up to timestamps.
C16_SameRunSameResult ==
    \A c, d \in Calls : SameRun(c, d) => ResultView(c) = ResultView(d)

\* two calls that both went manager -> enhancement -> ... and ended alike
C16_Witness ==
    /\ SameRun(1, 2)
    /\ Len(trace[1]) >= 3
    /\ result[1].metadata.node_history # result[2].metadata.node_history
    /\ result[1].metadata.processing_time # result[2].metadata.processing_time

\* the transfer functions a call's agents called, in order, as the history
\* entries they write
OwnTransitions(c) ==
    LET calls == SelectSeq(trace[c], LAMBDA e : e.ev = "call" /\ e.f \in DOMAIN transfer_functions)
    IN  [i \in 1..Len(calls) |->
            [node |-> transfer_functions[calls[i].f].node,
             action |-> transfer_functions[calls[i].f].action]]

\* C17: when calls of process_pdf interleave on one Orchestrator, the
\* history each call returns holds exactly the transitions of its own
\* run, in order, and none of another run's.
C17_InterleavedCallsIndependent ==
    \A c \in Calls :
        pc[c] = "done" => ResultView(c).history = OwnTransitions(c)

\* C18: a call of process_pdf with an empty document text makes no
\* manager -> enhancement transfer and ends as an error whose errors list
\* records the failure.
C18_EmptyDocumentFails ==
    \A c \in Calls :
        (pc[c] # "idle" /\ initial_context[c].pdf_text = "")
           => /\ CountOf(History, "manager", "transfer_to_enhancement") = 0
              /\ pc[c] = "done" => /\ result[c].status = "error"
                                   /\ Len(result[c].metadata.node_error) >= 1

\* C19: after construction all six stage names are registered in
\* available_nodes, every registered node has an agent, and every lookup a
\* node's transfer method makes in the node's own available_nodes finds
\* the target node, review's lookup of "manager" included.
C19_RegistryResolvesTargets ==
    /\ DOMAIN dicts[available_nodes] = Agents
    /\ \A name \in DOMAIN dicts[available_nodes] :
          /\ dicts[available_nodes][name] \in DOMAIN nodes
          /\ nodes[dicts[available_nodes][name]].agent # NoAgent
    /\ \A m \in DOMAIN NodeTransfers :
          /\ NodeLookup(NodeTransfers[m].node, NodeTransfers[m].target) = NodeTransfers[m].target
          /\ nodes[NodeLookup(NodeTransfers[m].node, NodeTransfers[m].target)].agent # NoAgent

\* a run of the constructed Orchestrator that came back to the manager
\* from review, whose node shares the registry dict in which "manager" was
\* put last
C19_Witness ==
    /\ pc[1] = "run"
    /\ active[1] = "manager"
    /\ CountOf(History, "review", "transfer_to_manager") = 1
    /\ nodes["review"].available_nodes = available_nodes
    /\ NodeLookup("review", "manager") = "manager"

\* the stage an action hands the chain to
TargetOf(action) ==
    CASE action = "transfer_to_enhancement" -> "enhancement"
      [] action = "transfer_to_processing" -> "processing"
      [] action = "transfer_to_validation" -> "validation"
      [] action = "transfer_to_review" -> "review"
      [] action = "transfer_to_manager" -> "manager"
      [] OTHER -> "none"

\* C20: node_history is a connected path of the stage graph: its first
\* entry is written by the manager, each later entry is written by the
\* stage the entry before it transferred to, and no entry follows a
\* transfer_to_completion entry.
C20_HistoryConnectedPath ==
    /\ Len(History) >= 1 => History[1].node = "manager"
    /\ \A i \in 1..(Len(History) - 1) :
          /\ History[i].action # "transfer_to_completion"
          /\ History[i + 1].node = TargetOf(History[i].action)

\* a history that went round the review loop and reached completion
C20_Witness ==
    /\ Len(History) = 9
    /\ History[5].action = "transfer_to_manager"
    /\ History[6].node = "manager"
    /\ History[9].action = "transfer_to_completion"
    /\ pc[1] = "run"

\* the iteration count of a history: its review -> manager entries
IterationCount(h) == CountOf(h, "review", "transfer_to_manager")

\* C21: every transfer of a run is recorded exactly once: a turn that
\* moves the chain from one stage to another appends exactly the entry
\* {node: source stage, action: transfer_to_<target stage>} and keeps the
\* entries before it; the number of review -> manager entries goes up by
\* one exactly when the chain goes from review to the manager, stays as it
\* is on every other step of the run, and never goes down.
C21_TransferRecordedOnce ==
    [][\A c \in Calls :
          pc[c] = "run"
             => /\ IsPrefix(History, heap'[node_history'])
                /\ IterationCount(heap'[node_history']) >= IterationCount(History)
                /\ (active'[c] # active[c])
                      => /\ Len(heap'[node_history']) = Len(History) + 1
                         /\ heap'[node_history'][Len(History) + 1].node = active[c]
                         /\ heap'[node_history'][Len(History) + 1].action
                               = "transfer_to_" \o active'[c]
                /\ (active'[c] = active[c]) => heap'[node_history'] = History
                /\ IterationCount(heap'[node_history'])
                      = IterationCount(History)
                           + (IF active[c] = "review" /\ active'[c] = "manager" THEN 1 ELSE 0)]_vars

\* a run that took the review -> manager edge twice and goes on
C21_Witness ==
    /\ pc[1] = "run"
    /\ IterationCount(History) = 2
    /\ Len(History) = 11
    /\ active[1] = "enhancement"

\* C22: when process_pdf is called again on one Orchestrator after it
\* returned, every call starts with an empty node_history, the history in
\* a returned result holds exactly the transitions of its own run, and no
\* later step of any call changes the history inside a result that was
\* already returned.
C22_ReuseKeepsReturnedHistories ==
    [][\A c \in Calls :
          /\ (pc[c] = "idle" /\ pc'[c] = "run") => heap'[node_history'] = <<>>
          /\ pc[c] = "done"
                => /\ result'[c] = result[c]
                   /\ heap'[result[c].metadata.node_history] = ResultHistory(c)
                   /\ ResultView(c).history = OwnTransitions(c)]_vars

\* the second call runs its own transfers after the first call returned a
\* history of its own
C22_Witness ==
    /\ pc[1] = "done"
    /\ Len(ResultHistory(1)) >= 2
    /\ pc[2] = "run"
    /\ Len(History) >= 1
    /\ result[1].metadata.node_history # node_history

\* the graph of the node classes: stage, method name and the agent the
\* method returns, for every transfer method a node class gives its agent
NodeGraph ==
    UNION { { <<n, "transfer_to_" \o NodeTransfers[m].target,
                nodes[NodeLookup(n, NodeTransfers[m].target)].agent>> :
                  m \in {k \in DOMAIN NodeTransfers :
                            NodeTransfers[k].node = n /\ k \in Node_create_agent[n]} } :
            n \in DOMAIN Node_create_agent }

\* the graph the Orchestrator wires: stage, action and the agent the
\* transfer function returns, for every transfer function of a stage's agent
OrchestratorGraph ==
    UNION { { <<a, transfer_functions[f].action, nodes[transfer_functions[f].agent].agent>> :
                  f \in {k \in DOMAIN transfer_functions : k \in AgentFunctions(a)} } :
            a \in Agents }

\* C23: the transfer methods of the node classes and the transfer
\* functions of the Orchestrator define the same graph: the same stages
\* have the same choices and each choice leads to the same agent, and the
\* completion stage has no transfer in either.
C23_NodeGraphEqualsOrchestratorGraph ==
    /\ NodeGraph = OrchestratorGraph
    /\ \A e \in NodeGraph \cup OrchestratorGraph : e[1] # "completion"
    /\ \A m \in DOMAIN NodeTransfers : m \in Node_create_agent[NodeTransfers[m].node]

\* a run at the validation stage, the one stage with two choices, which
\* lead to the completion and review agents in both graphs
C23_Witness ==
    /\ pc[1] = "run"
    /\ active[1] = "validation"
    /\ {e \in NodeGraph : e[1] = "validation"}
          = { <<"validation", "transfer_to_completion", nodes["completion"].agent>>,
              <<"validation", "transfer_to_review", nodes["review"].agent>> }
    /\ Cardinality(OrchestratorGraph) = 6

\* the status and message a node method passes to update_context
PassedTo(m) ==
    IF m \in DOMAIN NodeTransfers
    THEN [status |-> NodeTransfers[m].status, message |-> NodeTransfers[m].message]
    ELSE [status |-> "completed", message |-> "Processing completed successfully"]

\* C24: update_context returns a mapping that has the keys of the context
\* it was given plus 'status', 'message' and the keyword arguments, with
\* the passed status and message, the keyword arguments' values and the
\* context's values everywhere else, and the context it was given is the
\* same before and after; so a node's transfer method, which drops the
\* returned mapping, leaves its context unchanged.
C24_UpdateContextIsPure ==
    [][(ops' = ops + 1 /\ lastop'[2] = "update_context")
          => /\ context' = context
             /\ returned'.status = PassedTo(lastop'[1]).status
             /\ returned'.message = PassedTo(lastop'[1]).message
             /\ lastop'[1] = "finalize_response"
                   => /\ "final_response" \in DOMAIN returned'
                      /\ returned'.final_response = None
             /\ DOMAIN returned' \ {"status", "message", "final_response"}
                   = DOMAIN context \ {"status", "message", "final_response"}
             /\ \A k \in DOMAIN context \ {"status", "message", "final_response"} :
                   returned'[k] = context[k]]_vars

\* validation's transfer_to_review was called on a context on which a
\* handle_error had set status "error": the returned mapping says
\* "review_needed" and the context still says "error"
C24_Witness ==
    /\ lastop = <<"validation_transfer_to_review", "update_context">>
    /\ "status" \in DOMAIN context
    /\ context.status = "error"
    /\ returned.status = "review_needed"
    /\ returned.node_error = context.node_error

\* C25: under PDFContext.update with any keyword arguments the entries of
\* node_history, node_notes and node_error present before the call are
\* still there, in the same order, after it.
C25_PdfLogsAppendOnly ==
    [][/\ IsPrefix(pdfctx.node_history, pdfctx'.node_history)
       /\ IsPrefix(pdfctx.node_notes, pdfctx'.node_notes)
       /\ IsPrefix(pdfctx.node_error, pdfctx'.node_error)]_vars

\* C26: PDFContext.update(status, message) called without keyword
\* arguments appends exactly one entry to node_history and exactly one
\* entry, the message, to node_notes, sets node_status to whether the
\* status is 'success', and changes no other field; so n such calls make
\* both logs n entries longer.
C26_PlainUpdateAppendsOne ==
    [][(ops' = ops + 1 /\ lastop'[2] = "update" /\ lastop'[5] = {})
          => /\ Len(pdfctx'.node_history) = Len(pdfctx.node_history) + 1
             /\ IsPrefix(pdfctx.node_history, pdfctx'.node_history)
             /\ pdfctx'.node_notes = Append(pdfctx.node_notes, lastop'[4])
             /\ pdfctx'.node_status = (lastop'[3] = "success")
             /\ \A k \in DOMAIN pdfctx \ {"node_history", "node_notes", "node_status"} :
                   pdfctx'[k] = pdfctx[k]]_vars

\* two calls without keyword arguments, the second with status 'error'
C26_Witness ==
    /\ ops = 2
    /\ Len(lastop) = 5
    /\ lastop[3] = "error"
    /\ lastop[5] = {}
    /\ Len(pdfctx.node_history) = 2
    /\ pdfctx.node_notes = <<"first note", "second note">>
    /\ ~ pdfctx.node_status

\* the entry a log ends with
LastEntry(h) == h[Len(h)]

\* C27: a history entry names the stage that produced it, so when two
\* PDFContext.update calls that follow each other are made by different
\* stages, the entries they append differ.
C27_EntryNamesStage ==
    [][(/\ ops' = ops + 1
        /\ Len(lastop) = 5 /\ lastop[2] = "update" /\ lastop[5] = {}
        /\ lastop'[2] = "update" /\ lastop'[5] = {}
        /\ lastop'[1] # lastop[1])
          => LastEntry(pdfctx'.node_history) # LastEntry(pdfctx.node_history)]_vars

\* C28: is_valid is true exactly when pdf_text and user_prompt are not
\* empty, validation_failed is false and node_status is true; and after
\* an update call on a context with a document and a prompt it is true
\* exactly when that call's status was 'success' and validation_failed is
\* not set, whatever the calls before it were.
C28_IsValidFollowsLastStatus ==
    /\ is_valid(pdfctx) = (/\ pdfctx.pdf_text # ""
                           /\ pdfctx.user_prompt # ""
                           /\ ~ pdfctx.validation_failed
                           /\ pdfctx.node_status)
    /\ (Len(lastop) = 5 /\ lastop[2] = "update"
          /\ pdfctx.pdf_text # "" /\ pdfctx.user_prompt # "")
          => is_valid(pdfctx) = (lastop[3] = "success" /\ ~ pdfctx.validation_failed)

\* C29: src/main.py's process_pdf answers a failed run with statusCode 500
\* and the error, and answers with statusCode 200 only when the result of
\* the orchestrator has status success.
C29_WrapperReportsFailure ==
    (entrypoint = "process_pdf" /\ reply # NoResponse)
       => /\ (pc[1] = "done" /\ result[1].status = "error")
                => /\ reply.statusCode = 500
                   /\ "error" \in DOMAIN reply.body
          /\ reply.statusCode = 200
                => (pc[1] = "done" /\ result[1].status = "success")

\* the exception Orchestrator() raised, if it did
InitRaised == SelectSeq(trace[1], LAMBDA e : e.ev = "init_raise")

\* C30: process_document returns and never lets an exception out: when
\* building the Orchestrator raised, the value returned has status
\* 'error', the exception's message in 'error', an empty node_history and
\* node_notes, and a node_error holding exactly that message; otherwise it
\* is the result of the orchestrator, unchanged.
C30_ProcessDocumentNeverRaises ==
    (entrypoint = "process_document" /\ reply # NoResponse)
       => IF InitRaised # <<>>
          THEN /\ pc[1] = "idle"
               /\ reply.status = "error"
               /\ reply.error = Str(InitRaised[1].exc)
               /\ DOMAIN reply.metadata = {"node_history", "node_notes", "node_error"}
               /\ heap[reply.metadata.node_history] = <<>>
               /\ reply.metadata.node_notes = <<>>
               /\ reply.metadata.node_error = <<Str(InitRaised[1].exc)>>
          ELSE /\ pc[1] = "done"
               /\ reply = result[1]

\* Orchestrator() raised inside process_document
C30_Witness ==
    /\ entrypoint = "process_document"
    /\ InitRaised # <<>>
    /\ reply # NoResponse
    /\ reply.status = "error"
    /\ reply.error = "network failure"

\* C31: for every context c, from_dict(c.to_dict()) is equal to c field
\* by field, and to_dict() of the rebuilt context equals what c.to_dict()
\* gave.
C31_SerialisationRoundTrips ==
    /\ to_dict(pdfctx) # TypeError
    /\ from_dict(to_dict(pdfctx)) # TypeError
    /\ FieldsOf(from_dict(to_dict(pdfctx))) = FieldsOf(pdfctx)
    /\ to_dict(from_dict(to_dict(pdfctx))) = to_dict(pdfctx)

====
